---- MODULE Spec2Model ----
(***************************************************************************)
(* Chat widget (AgentComponent): identity provider (getSessionId,          *)
(* getUserId), conversation store and submission pipeline (submitMessage,  *)
(* handleSubmit, handlePromptClick).                                       *)
(*                                                                         *)
(* Text is a sequence of one-character strings, so that trim, replace,     *)
(* slice and template formatting are computed character by character.      *)
(* A nullable value (getItem result, error state, optional JSON field) is  *)
(* a sequence of length 0 (null / undefined) or 1 (the value).             *)
(***************************************************************************)
EXTENDS Integers, Sequences, FiniteSets, TLC

VARIABLES
    hasWindow,       \* typeof window !== "undefined"
    sessionStorage,  \* slot "sessionId" of window.sessionStorage
    localStorage,    \* slot "userId" of window.localStorage
    sessionReads,    \* history: the getSessionId calls since the slot was last cleared
    userReads,       \* history: the getUserId calls since the slot was last cleared
    mounted,         \* the mount effect has run
    sessionId,       \* useState("") sessionId
    userId,          \* useState("") userId
    message,         \* useState("") input field
    conversation,    \* useState([]) conversation
    error,           \* useState(null) error
    isLoading,       \* useState(false) isLoading
    promptSelected,  \* useState(false) promptSelected
    timers,          \* pending setTimeout(..., 0) callbacks, each with the values its
                     \* closure captured: the prompt and the render's message
    calls,           \* one record per fetch issued by submitMessage; its events field is
                     \* history: the pipeline's effects for that call, in program order
    rejected         \* history: number of submitMessage calls that returned at the trim guard

idVars ==
    <<hasWindow, sessionStorage, localStorage, sessionReads, userReads>>

chatVars ==
    <<mounted, sessionId, userId, message, conversation, error, isLoading,
      promptSelected, timers, calls, rejected>>

vars ==
    <<hasWindow, sessionStorage, localStorage, sessionReads, userReads,
      mounted, sessionId, userId, message, conversation, error, isLoading,
      promptSelected, timers, calls, rejected>>

----------------------------------------------------------------------------
(* Bounds *)

MaxSubmits ==
    2

MaxReads ==
    3

----------------------------------------------------------------------------
(* Text helpers *)

Null ==
    <<>>

Some(v) ==
    <<v>>

EmptyText ==
    <<>>

Whitespace ==
    {" ", "\t", "\n"}

AlphaNumeric ==
    {"0", "1", "2", "3", "4", "5", "6", "7", "8", "9",
     "a", "b", "c", "d", "e", "f", "g", "h", "i", "j", "k", "l", "m",
     "n", "o", "p", "q", "r", "s", "t", "u", "v", "w", "x", "y", "z",
     "A", "B", "C", "D", "E", "F", "G", "H", "I", "J", "K", "L", "M",
     "N", "O", "P", "Q", "R", "S", "T", "U", "V", "W", "X", "Y", "Z"}

RECURSIVE TrimStart(_)
TrimStart(s) ==
    IF s # <<>> /\ Head(s) \in Whitespace THEN TrimStart(Tail(s)) ELSE s

RECURSIVE TrimEnd(_)
TrimEnd(s) ==
    IF s # <<>> /\ s[Len(s)] \in Whitespace
    THEN TrimEnd(SubSeq(s, 1, Len(s) - 1))
    ELSE s

\* String.prototype.trim
Trim(s) ==
    TrimEnd(TrimStart(s))

\* String.prototype.slice(0, n)
Slice0(s, n) ==
    SubSeq(s, 1, IF Len(s) < n THEN Len(s) ELSE n)

\* String.prototype.replace(/-/g, "")
RemoveDashes(s) ==
    SelectSeq(s, LAMBDA c : c # "-")

DigitChars ==
    <<"0", "1", "2", "3", "4", "5", "6", "7", "8", "9">>

\* decimal formatting of a non-negative number inside a template literal
RECURSIVE ToDecimal(_)
ToDecimal(n) ==
    IF n < 10
    THEN <<DigitChars[n + 1]>>
    ELSE ToDecimal(n \div 10) \o <<DigitChars[(n % 10) + 1]>>

Contains(s, sub) ==
    \E i \in 0..(Len(s) - Len(sub)) : SubSeq(s, i + 1, i + Len(sub)) = sub

IsPrefix(s, t) ==
    Len(s) <= Len(t) /\ SubSeq(t, 1, Len(s)) = s

IsAlphaNumeric(s) ==
    \A i \in 1..Len(s) : s[i] \in AlphaNumeric

----------------------------------------------------------------------------
(* Identity provider *)

MaxIdLen ==
    32

\* uuidv4(): 36 characters, dashes at 9, 14, 19, 24, version digit 4, variant 8..b
Uuid(c, v) ==
    [i \in 1..36 |->
        IF i \in {9, 14, 19, 24} THEN "-"
        ELSE IF i = 15 THEN "4"
        ELSE IF i = 20 THEN v
        ELSE c]

Uuids ==
    {Uuid("a", "8"), Uuid("7", "b")}

\* the token derived from a freshly generated uuid
NewToken(uuid) ==
    Slice0(RemoveDashes(uuid), MaxIdLen)

\* stored && stored.length <= 32 ? stored : null
KeepStoredUpTo36(stored) ==
    IF stored # Null /\ stored[1] # EmptyText /\ Len(stored[1]) <= 36
    THEN stored
    ELSE Null

KeepStored(stored) ==
    IF stored # Null /\ stored[1] # EmptyText /\ Len(stored[1]) <= MaxIdLen
    THEN stored
    ELSE Null

\* getSessionId / getUserId on a slot: the token returned and the slot afterwards
GetStoredIdNoPersist(window, slot, uuid) ==
    IF ~window
    THEN [id |-> EmptyText, slot |-> slot]
    ELSE IF KeepStored(slot) # Null
         THEN [id |-> KeepStored(slot)[1], slot |-> slot]
         ELSE [id |-> NewToken(uuid), slot |-> slot]

GetStoredId(window, slot, uuid) ==
    IF ~window
    THEN [id |-> EmptyText, slot |-> slot]
    ELSE IF KeepStored(slot) # Null
         THEN [id |-> KeepStored(slot)[1], slot |-> slot]
         ELSE [id |-> NewToken(uuid), slot |-> Some(NewToken(uuid))]

getSessionId(window, slot, uuid) ==
    GetStoredId(window, slot, uuid)

getUserId(window, slot, uuid) ==
    GetStoredId(window, slot, uuid)

\* values a slot can hold when the page loads: nothing, the empty string, a
\* token written by this code, or an over-long value (33 characters, or a raw
\* 36-character uuid)
SlotValues ==
    {Null, Some(EmptyText)}
    \cup {Some(NewToken(u)) : u \in Uuids}
    \cup {Some(NewToken(u) \o <<"0">>) : u \in Uuids}
    \cup {Some(u) : u \in Uuids}

----------------------------------------------------------------------------
(* Identity provider as a state machine: reads and external clearing *)

ReadSessionId ==
    /\ Len(sessionReads) < MaxReads
    /\ \E u \in Uuids :
         LET r == getSessionId(hasWindow, sessionStorage, u)
         IN  /\ sessionStorage' = r.slot
             /\ sessionReads' = Append(sessionReads,
                    [before |-> sessionStorage, id |-> r.id, after |-> r.slot])
    /\ UNCHANGED <<hasWindow, localStorage, userReads>>
    /\ UNCHANGED chatVars

ReadUserId ==
    /\ Len(userReads) < MaxReads
    /\ \E u \in Uuids :
         LET r == getUserId(hasWindow, localStorage, u)
         IN  /\ localStorage' = r.slot
             /\ userReads' = Append(userReads,
                    [before |-> localStorage, id |-> r.id, after |-> r.slot])
    /\ UNCHANGED <<hasWindow, sessionStorage, sessionReads>>
    /\ UNCHANGED chatVars

\* the browser session ends or the slot is removed from outside
ClearSessionStorage ==
    /\ hasWindow
    /\ sessionStorage # Null
    /\ sessionStorage' = Null
    /\ sessionReads' = <<>>
    /\ UNCHANGED <<hasWindow, localStorage, userReads>>
    /\ UNCHANGED chatVars

ClearLocalStorage ==
    /\ hasWindow
    /\ localStorage # Null
    /\ localStorage' = Null
    /\ userReads' = <<>>
    /\ UNCHANGED <<hasWindow, sessionStorage, sessionReads>>
    /\ UNCHANGED chatVars

ChatInit ==
    /\ mounted = FALSE
    /\ sessionId = EmptyText
    /\ userId = EmptyText
    /\ message = EmptyText
    /\ conversation = <<>>
    /\ error = Null
    /\ isLoading = FALSE
    /\ promptSelected = FALSE
    /\ timers = <<>>
    /\ calls = <<>>
    /\ rejected = 0

InitId ==
    /\ hasWindow \in BOOLEAN
    /\ sessionStorage \in (IF hasWindow THEN SlotValues ELSE {Null})
    /\ localStorage \in (IF hasWindow THEN SlotValues ELSE {Null})
    /\ sessionReads = <<>>
    /\ userReads = <<>>
    /\ ChatInit

NextId ==
    \/ ReadSessionId
    \/ ReadUserId
    \/ ClearSessionStorage
    \/ ClearLocalStorage

SpecId ==
    InitId /\ [][NextId]_vars

----------------------------------------------------------------------------
(* Configuration and remote responses *)

\* chatConfig.suggestedPrompts
suggestedPrompts ==
    << <<"W", "h", "a", "t", " ", "i", "s", " ", "y", "o", "u", "r", " ", "w", "o", "r", "k", " ", "s", "t", "y", "l", "e", "?">>,
       <<"T", "e", "l", "l", " ", "m", "e", " ", "a", "b", "o", "u", "t", " ", "y", "o", "u", "r", " ", "w", "o", "r", "k", " ", "e", "x", "p", "e", "r", "i", "e", "n", "c", "e", ".">>,
       <<"W", "h", "a", "t", " ", "t", "o", "o", "l", "s", " ", "d", "o", "e", "s", " ", "s", "h", "e", " ", "u", "s", "e", " ", "i", "n", " ", "h", "e", "r", " ", "w", "o", "r", "k", "f", "l", "o", "w", "?">> >>

Fallback ==
    <<"N", "o", " ", "v", "a", "l", "i", "d", " ", "r", "e", "s", "p", "o", "n", "s", "e", " ", "r", "e", "c", "e", "i", "v", "e", "d", " ", "f", "r", "o", "m", " ", "a", "g", "e", "n", "t", ".">>

ServerErrorPrefix ==
    <<"S", "e", "r", "v", "e", "r", " ", "e", "r", "r", "o", "r", ":", " ">>

\* `Server error: ${res.status}`
ServerErrorMessageNoStatus(status) ==
    ServerErrorPrefix

ServerErrorMessage(status) ==
    ServerErrorPrefix \o ToDecimal(status)

\* Response.ok
ResponseOk(status) ==
    status >= 200 /\ status <= 299

\* texts the user types into the input field
Inputs ==
    {EmptyText, <<" ", "\t">>, <<" ", "h", "i", " ">>}

\* statuses the proxy answers with
Statuses ==
    {200, 404, 500}

\* message of the TypeError a rejected fetch carries
NetworkErrorMessage ==
    <<"F", "a", "i", "l", "e", "d", " ", "t", "o", " ", "f", "e", "t", "c", "h">>

\* message of the SyntaxError res.json() rejects with
JsonParseErrorMessage ==
    <<"U", "n", "e", "x", "p", "e", "c", "t", "e", "d", " ", "e", "n", "d", " ", "o", "f", " ", "J", "S", "O", "N", " ", "i", "n", "p", "u", "t">>

\* message of the TypeError raised by reading a property of null
NullBodyErrorMessage ==
    <<"C", "a", "n", "n", "o", "t", " ", "r", "e", "a", "d", " ", "p", "r", "o", "p", "e", "r", "t", "i", "e", "s", " ", "o", "f", " ", "n", "u", "l", "l", " ", "(", "r", "e", "a", "d", "i", "n", "g", " ", "'", "o", "u", "t", "p", "u", "t", "_", "d", "a", "t", "a", "'", ")">>

Hello ==
    <<"H", "e", "l", "l", "o">>

\* parsed JSON bodies: null, or an object whose output_data and
\* output_data.content are each present or not
JsonNull ==
    [isNull |-> TRUE, output_data |-> Null]

JsonObject(outputData) ==
    [isNull |-> FALSE, output_data |-> outputData]

Bodies ==
    { JsonObject(Some([content |-> Some(Hello)])),
      JsonObject(Some([content |-> Some(EmptyText)])),
      JsonObject(Some([content |-> Null])),
      JsonObject(Null),
      JsonNull }

\* data.output_data && data.output_data.content ? data.output_data.content : fallback
AgentReply(data) ==
    IF /\ data.output_data # Null
       /\ data.output_data[1].content # Null
       /\ data.output_data[1].content[1] # EmptyText
    THEN data.output_data[1].content[1]
    ELSE Fallback

\* (prev) => [...prev, msg]
AppendMessageReplacing(prev, msg) ==
    <<msg>>

AppendMessage(prev, msg) ==
    Append(prev, msg)

----------------------------------------------------------------------------
(* Submission pipeline *)

\* number of submitMessage invocations so far
NumSubmits ==
    Len(calls) + rejected

InFlight ==
    {i \in DOMAIN calls : calls[i].pc \in {"fetch", "json"}}

\* the effects of submitMessage up to its first await, in program order:
\* setConversation (user append), setIsLoading(true), fetch
SubmitEventsFetchFirst ==
    <<"issue", "user">>

SubmitEvents ==
    <<"user", "issue">>

\* !userInput.trim()
IsBlankUntrimmed(userInput) ==
    userInput = EmptyText

IsBlank(userInput) ==
    Trim(userInput) = EmptyText

\* submitMessage(userInput) up to its first await
SubmitMessage(userInput) ==
    IF IsBlank(userInput)
    THEN /\ rejected' = rejected + 1
         /\ UNCHANGED <<message, error, conversation, isLoading, calls>>
    ELSE LET userMessage == [role |-> "user", content |-> Trim(userInput)]
             payload == [data |-> [message |-> userMessage],
                         stateful |-> TRUE,
                         stream |-> FALSE,
                         user_id |-> userId,
                         session_id |-> sessionId,
                         verbose |-> FALSE]
         IN  /\ message' = EmptyText
             /\ error' = Null
             /\ conversation' = AppendMessage(conversation, userMessage)
             /\ isLoading' = TRUE
             /\ calls' = Append(calls,
                    [input |-> userInput, payload |-> payload, pc |-> "fetch",
                     userIdx |-> Len(conversation) + 1,
                     events |-> SubmitEvents])
             /\ UNCHANGED rejected

\* useEffect(() => { setSessionId(getSessionId()); setUserId(getUserId()); }, [])
MountEffect ==
    /\ hasWindow
    /\ ~mounted
    /\ \E u1 \in Uuids, u2 \in Uuids :
         LET s == getSessionId(hasWindow, sessionStorage, u1)
             u == getUserId(hasWindow, localStorage, u2)
         IN  /\ sessionStorage' = s.slot
             /\ sessionReads' = Append(sessionReads,
                    [before |-> sessionStorage, id |-> s.id, after |-> s.slot])
             /\ sessionId' = s.id
             /\ localStorage' = u.slot
             /\ userReads' = Append(userReads,
                    [before |-> localStorage, id |-> u.id, after |-> u.slot])
             /\ userId' = u.id
    /\ mounted' = TRUE
    /\ UNCHANGED <<hasWindow, message, conversation, error, isLoading,
                   promptSelected, timers, calls, rejected>>

\* <input onChange={(e) => setMessage(e.target.value)}>
TypeInput(text) ==
    /\ mounted
    /\ message # text
    /\ message' = text
    /\ UNCHANGED idVars
    /\ UNCHANGED <<mounted, sessionId, userId, conversation, error, isLoading,
                   promptSelected, timers, calls, rejected>>

\* handleSubmit: the form's submit button is disabled while isLoading
HandleSubmit ==
    /\ mounted
    /\ ~isLoading
    /\ NumSubmits < MaxSubmits
    /\ SubmitMessage(message)
    /\ UNCHANGED idVars
    /\ UNCHANGED <<mounted, sessionId, userId, promptSelected, timers>>

\* the argument the deferred callback passes to submitMessage
PromptCallbackArgStale(prompt, staleMessage) ==
    staleMessage

PromptCallbackArg(prompt, staleMessage) ==
    prompt

\* handlePromptClick: the prompt buttons are rendered while !promptSelected
\* and disabled while isLoading
HandlePromptClick(prompt) ==
    /\ mounted
    /\ ~promptSelected
    /\ ~isLoading
    /\ promptSelected' = TRUE
    /\ message' = prompt
    /\ timers' = Append(timers, [prompt |-> prompt, message |-> message])
    /\ UNCHANGED idVars
    /\ UNCHANGED <<mounted, sessionId, userId, conversation, error, isLoading,
                   calls, rejected>>

\* the setTimeout(..., 0) callback of handlePromptClick runs
TimerFire ==
    /\ timers # <<>>
    /\ NumSubmits < MaxSubmits
    /\ SubmitMessage(PromptCallbackArg(Head(timers).prompt, Head(timers).message))
    /\ timers' = Tail(timers)
    /\ UNCHANGED idVars
    /\ UNCHANGED <<mounted, sessionId, userId, promptSelected>>

\* catch (err) { setError(err.message) } finally { setIsLoading(false) }
FailShownAsAgentMessage(i, msg, settled) ==
    /\ error' = Some(msg)
    /\ isLoading' = FALSE
    /\ calls' = [calls EXCEPT ![i].pc = "failed",
                              ![i].events = @ \o <<settled, "error">>]
    /\ conversation' = AppendMessage(conversation, [role |-> "agent", content |-> msg])
    /\ UNCHANGED <<message, rejected>>

Fail(i, msg, settled) ==
    /\ error' = Some(msg)
    /\ isLoading' = FALSE
    /\ calls' = [calls EXCEPT ![i].pc = "failed",
                              ![i].events = @ \o <<settled, "error">>]
    /\ UNCHANGED <<message, conversation, rejected>>

\* the fetch promise resolves with a response of the given status
FetchResolve(i, status) ==
    /\ i \in DOMAIN calls
    /\ calls[i].pc = "fetch"
    /\ IF ResponseOk(status)
       THEN /\ calls' = [calls EXCEPT ![i].pc = "json",
                                      ![i].events = Append(@, "response")]
            /\ UNCHANGED <<message, conversation, error, isLoading, rejected>>
       ELSE Fail(i, ServerErrorMessage(status), "response")
    /\ UNCHANGED idVars
    /\ UNCHANGED <<mounted, sessionId, userId, promptSelected, timers>>

\* the fetch promise rejects (network failure)
FetchReject(i) ==
    /\ i \in DOMAIN calls
    /\ calls[i].pc = "fetch"
    /\ Fail(i, NetworkErrorMessage, "response")
    /\ UNCHANGED idVars
    /\ UNCHANGED <<mounted, sessionId, userId, promptSelected, timers>>

\* res.json() resolves with the parsed body
JsonResolve(i, data) ==
    /\ i \in DOMAIN calls
    /\ calls[i].pc = "json"
    /\ IF data.isNull
       THEN Fail(i, NullBodyErrorMessage, "body")
       ELSE LET agentMessage == [role |-> "agent", content |-> AgentReply(data)]
            IN  /\ conversation' = AppendMessage(conversation, agentMessage)
                /\ message' = EmptyText
                /\ isLoading' = FALSE
                /\ calls' = [calls EXCEPT ![i].pc = "done",
                                          ![i].events = @ \o <<"body", "agent">>]
                /\ UNCHANGED <<error, rejected>>
    /\ UNCHANGED idVars
    /\ UNCHANGED <<mounted, sessionId, userId, promptSelected, timers>>

\* res.json() rejects: the body cannot be parsed
JsonReject(i) ==
    /\ i \in DOMAIN calls
    /\ calls[i].pc = "json"
    /\ Fail(i, JsonParseErrorMessage, "body")
    /\ UNCHANGED idVars
    /\ UNCHANGED <<mounted, sessionId, userId, promptSelected, timers>>

\* the component runs its effects and handlers in the browser only; a new
\* browser session of a returning visitor starts with an empty sessionStorage
\* and the userId of an earlier session in localStorage
Init ==
    /\ hasWindow = TRUE
    /\ sessionStorage = Null
    /\ localStorage = Some(NewToken(Uuid("7", "b")))
    /\ sessionReads = <<>>
    /\ userReads = <<>>
    /\ ChatInit

Next ==
    \/ MountEffect
    \/ \E text \in Inputs : TypeInput(text)
    \/ HandleSubmit
    \/ \E k \in DOMAIN suggestedPrompts : HandlePromptClick(suggestedPrompts[k])
    \/ TimerFire
    \/ \E i \in 1..MaxSubmits, status \in Statuses : FetchResolve(i, status)
    \/ \E i \in 1..MaxSubmits : FetchReject(i)
    \/ \E i \in 1..MaxSubmits, data \in Bodies : JsonResolve(i, data)
    \/ \E i \in 1..MaxSubmits : JsonReject(i)

Spec ==
    Init /\ [][Next]_vars

----------------------------------------------------------------------------
(* Properties of the submission pipeline *)

UserMessage(text) ==
    [role |-> "user", content |-> Trim(text)]

CountRole(role) ==
    Cardinality({k \in DOMAIN conversation : conversation[k].role = role})

Positions(events, e) ==
    {k \in DOMAIN events : events[k] = e}

\* C1: every submission with non-blank text appends exactly one user message
\* {role: user, content: trimmed text}, the append precedes the issue of that
\* submission's fetch, and an agent message for the submission is appended
\* only after its call has resolved.
C1_UserAppendBeforeCall ==
    /\ CountRole("user") = Len(calls)
    /\ CountRole("agent") = Cardinality({i \in DOMAIN calls : calls[i].pc = "done"})
    /\ \A i \in DOMAIN calls :
         LET c == calls[i]
         IN  /\ ~(Trim(c.input) = EmptyText)
             /\ c.userIdx \in DOMAIN conversation
             /\ conversation[c.userIdx] = UserMessage(c.input)
             /\ \A j \in DOMAIN calls : j # i => calls[j].userIdx # c.userIdx
             /\ Cardinality(Positions(c.events, "user")) = 1
             /\ Cardinality(Positions(c.events, "issue")) = 1
             /\ \A u \in Positions(c.events, "user"), f \in Positions(c.events, "issue") :
                    u < f
             /\ \A a \in Positions(c.events, "agent") :
                    /\ \E r \in Positions(c.events, "response") : r < a
                    /\ \E b \in Positions(c.events, "body") : b < a
                    /\ \A f \in Positions(c.events, "issue") : f < a

C1_Witness ==
    \E i \in DOMAIN calls :
        /\ calls[i].pc = "done"
        /\ \E j \in DOMAIN calls : calls[j].pc = "fetch"

\* C2: a submit whose text is empty or whitespace-only leaves the store,
\* the issued calls, the input field, the error and the busy flag unchanged.
C2_BlankSubmitIsNoOp ==
    [][
        /\ (HandleSubmit /\ Trim(message) = EmptyText)
              => UNCHANGED <<conversation, calls, message, error, isLoading>>
        /\ (rejected' # rejected)
              => UNCHANGED <<conversation, calls, message, error, isLoading>>
    ]_vars

C2_Witness ==
    /\ rejected > 0
    /\ message # EmptyText
    /\ conversation # <<>>

\* C3: isLoading is true exactly when a call has been issued and has not yet
\* resolved or rejected.
C3_BusyIffInFlight ==
    isLoading <=> (InFlight # {})

\* C4: at most one call is in flight at any time.
C4_AtMostOneInFlight ==
    Cardinality(InFlight) <= 1

\* C5: when a call fails (non-success status, network rejection, unparsable
\* body) no agent message is appended, the submission's user message stays
\* in the store, and error is set to the failure's message, which for a
\* non-success status contains the status code.
C5_FailureKeepsStoreSetsError ==
    [][
        /\ \A i \in DOMAIN calls :
              (calls[i].pc \in {"fetch", "json"} /\ calls'[i].pc = "failed")
              => /\ conversation' = conversation
                 /\ conversation'[calls[i].userIdx] = UserMessage(calls[i].input)
                 /\ error' # Null
        /\ \A i \in 1..MaxSubmits, status \in Statuses :
              (FetchResolve(i, status) /\ ~ResponseOk(status))
              => /\ error' # Null
                 /\ Contains(error'[1], ToDecimal(status))
                 /\ calls'[i].pc = "failed"
        /\ \A i \in 1..MaxSubmits :
              FetchReject(i)
              => (error' = Some(NetworkErrorMessage) /\ calls'[i].pc = "failed")
        /\ \A i \in 1..MaxSubmits :
              JsonReject(i)
              => (error' = Some(JsonParseErrorMessage) /\ calls'[i].pc = "failed")
    ]_vars

C5_Witness ==
    \E i \in DOMAIN calls :
        /\ calls[i].pc = "failed"
        /\ error # Null
        /\ Contains(error[1], <<"5", "0", "0">>)
        /\ conversation[Len(conversation)].role = "user"

\* the reply C6 states for a parsed body
StatedReply(data) ==
    IF data.output_data # Null /\ data.output_data[1].content # Null
    THEN data.output_data[1].content[1]
    ELSE Fallback

\* C6: when a call succeeds exactly one agent message is appended, with
\* content output_data.content when that field is present and the fallback
\* text when output_data or its content is absent, and error is not set.
C6_SuccessAppendsReply ==
    [][
        \A i \in 1..MaxSubmits, data \in Bodies :
            JsonResolve(i, data)
            => /\ conversation' =
                    Append(conversation, [role |-> "agent", content |-> StatedReply(data)])
               /\ error' = error
    ]_vars

\* C9: a prompt click sets promptSelected, promptSelected is never reset, and
\* the deferred submission changes the store exactly as typing the prompt
\* into the input field and submitting the form does.
C9_PromptHidesAndSubmitsAsTyped ==
    [][
        /\ promptSelected => promptSelected'
        /\ \A k \in DOMAIN suggestedPrompts :
              HandlePromptClick(suggestedPrompts[k]) => promptSelected'
        /\ TimerFire
              => /\ conversation' =
                      Append(conversation, UserMessage(Head(timers).prompt))
                 /\ Len(calls') = Len(calls) + 1
                 /\ calls'[Len(calls')].payload.data.message =
                      UserMessage(Head(timers).prompt)
        /\ (HandleSubmit /\ ~(Trim(message) = EmptyText))
              => /\ conversation' = Append(conversation, UserMessage(message))
                 /\ Len(calls') = Len(calls) + 1
                 /\ calls'[Len(calls')].payload.data.message = UserMessage(message)
    ]_vars

C9_Witness ==
    /\ promptSelected
    /\ timers = <<>>
    /\ \E k \in DOMAIN conversation :
          conversation[k] = [role |-> "user", content |-> suggestedPrompts[2]]
    /\ \E k \in DOMAIN conversation : conversation[k].role = "agent"

\* C10: the store is append-only: in every step the store before the step is
\* a prefix of the store after it.
C10_AppendOnly ==
    [][IsPrefix(conversation, conversation')]_vars

C10_Witness ==
    /\ Len(conversation) >= 3
    /\ conversation[1].role = "user"
    /\ conversation[2].role = "user"
    /\ conversation[3].role = "agent"

FailedCalls ==
    {i \in DOMAIN calls : calls[i].pc = "failed"}

\* C11: in every reachable state the number of user messages in the store
\* equals the number of agent messages plus the number of calls in flight
\* plus the number of failed calls; so agent messages never outnumber user
\* messages, and a non-empty store starts with a user message.
C11_UserCountBalance ==
    /\ CountRole("user") =
          CountRole("agent") + Cardinality(InFlight) + Cardinality(FailedCalls)
    /\ CountRole("agent") <= CountRole("user")
    /\ conversation # <<>> => conversation[1].role = "user"

C11_Witness ==
    /\ Len(calls) = 2
    /\ calls[1].pc = "fetch"
    /\ calls[2].pc \in {"failed", "done"}
    /\ CountRole("user") = 2

----------------------------------------------------------------------------
(* Properties of the identity provider *)

AllReads ==
    {sessionReads, userReads}

TooLong(slot) ==
    slot # Null /\ Len(slot[1]) > MaxIdLen

\* C8: in the browser, a read that finds the slot absent or holding more
\* than 32 characters returns a newly generated token, never the over-long
\* value, and leaves that token in the slot.
C8_AbsentOrTooLongRegenerates ==
    /\ \A reads \in AllReads :
          \A i \in DOMAIN reads :
              (hasWindow /\ (reads[i].before = Null \/ TooLong(reads[i].before)))
              => /\ reads[i].id \in {NewToken(u) : u \in Uuids}
                 /\ Len(reads[i].id) <= MaxIdLen
                 /\ Some(reads[i].id) # reads[i].before
                 /\ reads[i].after = Some(reads[i].id)
    /\ sessionReads # <<>> => sessionStorage = sessionReads[Len(sessionReads)].after
    /\ userReads # <<>> => localStorage = userReads[Len(userReads)].after
    /\ (hasWindow /\ sessionReads # <<>>)
          => sessionStorage = Some(sessionReads[Len(sessionReads)].id)
    /\ (hasWindow /\ userReads # <<>>)
          => localStorage = Some(userReads[Len(userReads)].id)

C8_Witness ==
    /\ hasWindow
    /\ \E i \in DOMAIN sessionReads : TooLong(sessionReads[i].before)
    /\ \E i \in DOMAIN userReads : userReads[i].before = Null

====
